---- MODULE Spec2Model ----
(***************************************************************************)
(* A model of cli/src/git_util.rs: the credential callbacks handed to the  *)
(* git transport (pinentry helper, terminal prompts behind a Mutex), the   *)
(* Assuan percent-decoder, the ssh key locator, the failed-export report   *)
(* and the "~/" path expansion.                                            *)
(*                                                                         *)
(* Strings are sequences: of bytes (0..255) where the code works on bytes  *)
(* (the decoder, the helper's output), of one-character strings where it   *)
(* works on characters of a path.  Option<T> is a sequence of length 0 or  *)
(* 1.                                                                      *)
(***************************************************************************)
EXTENDS Integers, Sequences, FiniteSets, TLC

VARIABLES
    encoded,        \* decode_assuan_data: the argument (bytes of a &str)
    text,           \* the text the helper is encoding (round trip only)
    decode_result,  \* decode_assuan_data: the returned Option<String>
    dpc,            \* "encode" | "ready" | "done"
    helper,         \* what the pinentry child process does (the environment)
    pin_url,        \* pinentry_get_pw: the url argument
    pin_request,    \* the request written to the child's stdin, if any
    pin_result,     \* pinentry_get_pw: the returned Option<String>
    pin_panicked,   \* pinentry_get_pw unwound (an unwrap() of None)
    ppc,            \* "ready" | "done"
    ui_lock,        \* Mutex<&mut Ui>: "free", or the callback holding the guard
    ui_in_flight,   \* the callbacks whose prompt the Ui is showing right now
    cb,             \* the get_password / get_username_password closures
    calls,          \* invocations made by the transport so far
    failed_branches,\* print_failed_git_export: the &[FailedRefExport] argument
    abandoned_commits, \* print_git_import_stats: stats.abandoned_commits.len()
    write_budget,   \* writes the output accepts before one fails (None: all)
    ui_out,         \* what was written to the Ui, in order
    export_result,  \* "Ok" | "Err", the io::Result returned
    epc,            \* "ready" | "done" | "stats_done"
    path_str,       \* expand_git_path: the argument, a sequence of characters
    home_env,       \* what std::env::var("HOME") finds
    expanded,       \* expand_git_path: the returned PathBuf
    xpc,            \* "ready" | "done"
    home_dir,       \* dirs::home_dir(), an Option<PathBuf>
    ssh_files,      \* what each candidate path under ~/.ssh is on disk
    username,       \* get_ssh_keys: the (unused) argument
    ssh_keys,       \* get_ssh_keys: the returned Vec<PathBuf>
    kpc             \* "ready" | "done"

decodeVars == <<encoded, text, decode_result, dpc>>
pinVars == <<helper, pin_url, pin_request, pin_result, pin_panicked, ppc>>
cbVars == <<ui_lock, ui_in_flight, cb, calls>>
exportVars ==
    <<failed_branches, abandoned_commits, write_budget, ui_out, export_result, epc>>
pathVars == <<path_str, home_env, expanded, xpc>>
keyVars == <<home_dir, ssh_files, username, ssh_keys, kpc>>
vars == <<decodeVars, pinVars, cbVars, exportVars, pathVars, keyVars>>

\* What the credential closures leave alone.
notCbVars == <<decodeVars, pinVars, exportVars, pathVars, keyVars>>

None == <<>>
Some(v) == <<v>>

(***************************************************************************)
(* Bounds of the model.                                                    *)
(***************************************************************************)
MaxEncLen == 4      \* longest argument of decode_assuan_data drawn in Init
MaxTextLen == 2     \* longest text encoded by the helper in the round trip
MaxOutLen == 6      \* longest output of the pinentry child
MaxCalls == 3       \* callback invocations the transport makes in one operation
MaxFailed == 2      \* longest list of failed exports
MaxPathLen == 4     \* longest argument of expand_git_path
MaxAbandoned == 2   \* most abandoned commits in the import statistics

(***************************************************************************)
(* Bytes.                                                                  *)
(***************************************************************************)
Percent == 37       \* b'%'
Plus == 43          \* b'+'
Minus == 45         \* b'-'
Newline == 10       \* '\n'

RECURSIVE SeqsUpTo(_, _)
\* All sequences over S of length 0..n.
SeqsUpTo(S, n) ==
    IF n = 0 THEN {<<>>}
    ELSE LET shorter == SeqsUpTo(S, n - 1)
         IN  shorter \cup {Append(s, x) : s \in {t \in shorter : Len(t) = n - 1}, x \in S}

Cont(b) == b >= 128 /\ b <= 191

RECURSIVE IsUtf8(_)
\* std::str::from_utf8 / String::from_utf8 succeed: the well-formed byte
\* sequences of the Unicode standard (no overlong forms, no surrogates,
\* nothing above U+10FFFF).
IsUtf8(bs) ==
    IF bs = <<>> THEN TRUE
    ELSE LET b == bs[1]
             n == Len(bs)
         IN  IF b <= 127 THEN IsUtf8(Tail(bs))
             ELSE IF b >= 194 /\ b <= 223
                  THEN n >= 2 /\ Cont(bs[2]) /\ IsUtf8(SubSeq(bs, 3, n))
             ELSE IF b >= 224 /\ b <= 239
                  THEN /\ n >= 3
                       /\ Cont(bs[2]) /\ Cont(bs[3])
                       /\ (b = 224 => bs[2] >= 160)
                       /\ (b = 237 => bs[2] <= 159)
                       /\ IsUtf8(SubSeq(bs, 4, n))
             ELSE IF b >= 240 /\ b <= 244
                  THEN /\ n >= 4
                       /\ Cont(bs[2]) /\ Cont(bs[3]) /\ Cont(bs[4])
                       /\ (b = 240 => bs[2] >= 144)
                       /\ (b = 244 => bs[2] <= 143)
                       /\ IsUtf8(SubSeq(bs, 5, n))
             ELSE FALSE

\* Mutant of ToDigit16: lower-case digits are not accepted.
ToDigit16NoLower(b) ==
    IF b >= 48 /\ b <= 57 THEN b - 48
    ELSE IF b >= 65 /\ b <= 70 THEN b - 65 + 10
    ELSE -1

\* char::to_digit(16): the digit's value, or -1 for a byte that is no digit.
ToDigit16(b) ==
    IF b >= 48 /\ b <= 57 THEN b - 48
    ELSE IF b >= 97 /\ b <= 102 THEN b - 97 + 10
    ELSE IF b >= 65 /\ b <= 70 THEN b - 65 + 10
    ELSE -1

RECURSIVE FoldDigits16(_, _)
\* The digit loop of from_str_radix for u8: None on a non-digit or on
\* overflow of the 8-bit result.
FoldDigits16(digits, acc) ==
    IF digits = <<>> THEN Some(acc)
    ELSE LET d == ToDigit16(digits[1])
         IN  IF d < 0 THEN None
             ELSE IF acc * 16 + d > 255 THEN None
             ELSE FoldDigits16(Tail(digits), acc * 16 + d)

\* u8::from_str_radix(src, 16): an empty string and a lone sign fail, a
\* leading '+' is skipped, a leading '-' is not (u8 is unsigned: it is then
\* an invalid digit).
FromStrRadix16(src) ==
    IF src = <<>> THEN None
    ELSE IF Len(src) = 1 /\ src[1] \in {Plus, Minus} THEN None
    ELSE IF src[1] = Plus THEN FoldDigits16(Tail(src), 0)
    ELSE FoldDigits16(src, 0)

\* encoded.get(i..i + 2), i counted from 0: None when the range runs past
\* the end.
GetRange2(bs, i) ==
    IF i + 2 <= Len(bs) THEN Some(SubSeq(bs, i + 1, i + 2)) ELSE None

\* The escape at encoded[i..i+2]: get(..)?, from_utf8(..).ok()?,
\* from_str_radix(.., 16).ok()?
EscapeByte(bs, i) ==
    LET r == GetRange2(bs, i)
    IN  IF r = None THEN None
        ELSE IF ~IsUtf8(r[1]) THEN None
        ELSE FromStrRadix16(r[1])

RECURSIVE DecodeLoop(_, _, _)
\* The while loop of decode_assuan_data, i counted from 0; the result is
\* String::from_utf8(decoded).ok(), or None as soon as an escape fails.
DecodeLoop(bs, i, decoded) ==
    IF i >= Len(bs) THEN (IF IsUtf8(decoded) THEN Some(decoded) ELSE None)
    ELSE IF bs[i + 1] # Percent THEN DecodeLoop(bs, i + 1, Append(decoded, bs[i + 1]))
    ELSE LET byte == EscapeByte(bs, i + 1)
         IN  IF byte = None THEN None
             ELSE DecodeLoop(bs, i + 3, Append(decoded, byte[1]))

decode_assuan_data(bs) == DecodeLoop(bs, 0, <<>>)


(***************************************************************************)
(* pinentry_get_pw.  The child process is the environment: whether it can  *)
(* be spawned, whether the request can be written to it, whether its       *)
(* output can be read, the bytes it writes and its exit status.            *)
(***************************************************************************)
Urls == {"u1", "u2"}

\* std::process::Command::new("pinentry").stdin(Stdio::piped()): the child's
\* stdin and stdout handles are Some after a successful spawn.
StdioPiped == TRUE

RECURSIVE Split(_, _)
\* str::split(sep): the pieces between separators, an empty last piece
\* included.
Split(bs, sep) ==
    IF \A k \in 1..Len(bs) : bs[k] # sep THEN <<bs>>
    ELSE LET k == CHOOSE j \in 1..Len(bs) :
                      bs[j] = sep /\ \A m \in 1..(j - 1) : bs[m] # sep
         IN  <<SubSeq(bs, 1, k - 1)>> \o Split(SubSeq(bs, k + 1, Len(bs)), sep)

\* line.starts_with("D ")
StartsWithD(line) == Len(line) >= 2 /\ line[1] = 68 /\ line[2] = 32

\* line.split_at(2).1
SplitAt2Tail(line) == SubSeq(line, 3, Len(line))

RECURSIVE ScanLinesLast(_)
\* Mutant of ScanLines: no return at the first "D " line, the last one wins.
ScanLinesLast(lines) ==
    IF lines = <<>> THEN None
    ELSE LET later == ScanLinesLast(Tail(lines))
         IN  IF later # None \/ ~StartsWithD(lines[1]) THEN later
             ELSE decode_assuan_data(SplitAt2Tail(lines[1]))

RECURSIVE ScanLines(_)
\* for line in out.split('\n') { if !line.starts_with("D ") { continue; }
\*   ...; return decode_assuan_data(encoded); }  None
ScanLines(lines) ==
    IF lines = <<>> THEN None
    ELSE IF ~StartsWithD(lines[1]) THEN ScanLines(Tail(lines))
    ELSE decode_assuan_data(SplitAt2Tail(lines[1]))

\* The four request lines written to the child.
PinRequest(url) ==
    <<"SETTITLE jj passphrase", "SETDESC Enter passphrase for " \o url,
      "SETPROMPT Passphrase:", "GETPIN">>

\* read_to_string(&mut out).ok()?: the read itself fails, or the bytes read
\* are not UTF-8.
ReadToStringOk(h) == h.read /\ IsUtf8(h.out)

\* pinentry_get_pw(url) against a child that behaves as h:
\* [result, request, panicked].  The exit status (_ = pinentry.wait()) is
\* dropped.
pinentry_get_pw(url, h) ==
    IF ~h.spawn
    THEN [result |-> None, request |-> None, panicked |-> FALSE]
    ELSE IF ~StdioPiped
    THEN [result |-> None, request |-> None, panicked |-> TRUE]
    ELSE IF ~h.write
    THEN [result |-> None, request |-> None, panicked |-> FALSE]
    ELSE IF ~ReadToStringOk(h)
    THEN [result |-> None, request |-> Some(PinRequest(url)), panicked |-> FALSE]
    ELSE [result |-> ScanLines(Split(h.out, Newline)),
          request |-> Some(PinRequest(url)), panicked |-> FALSE]

\* 'D', ' ', line feed, '%', '4'.
PinAlphabet == {68, 32, Newline, Percent, 52}

\* Outputs that are not UTF-8: a lone lead byte, alone and after "D 4\n".
NonUtf8Outputs == {<<202>>, <<68, 32, 52, Newline, 202>>}

HelperBehaviours ==
    {[spawn |-> FALSE, write |-> FALSE, read |-> FALSE, out |-> <<>>, exit |-> 0]}
    \cup {[spawn |-> TRUE, write |-> FALSE, read |-> FALSE, out |-> <<>>, exit |-> e] :
            e \in {0, 1}}
    \cup {[spawn |-> TRUE, write |-> TRUE, read |-> FALSE, out |-> <<>>, exit |-> e] :
            e \in {0, 1}}
    \cup {[spawn |-> TRUE, write |-> TRUE, read |-> TRUE, out |-> o, exit |-> e] :
            o \in SeqsUpTo(PinAlphabet, MaxOutLen) \cup NonUtf8Outputs, e \in {0, 1}}

PinIdle ==
    /\ helper = [spawn |-> FALSE, write |-> FALSE, read |-> FALSE, out |-> <<>>, exit |-> 0]
    /\ pin_url = "u1"
    /\ pin_request = None
    /\ pin_result = None
    /\ pin_panicked = FALSE
    /\ ppc = "idle"


(***************************************************************************)
(* with_remote_git_callbacks: the two credential closures and the Ui they  *)
(* share behind a Mutex.  A prompt lasts from the moment the Ui shows it   *)
(* until the user answers (or the Ui reports an error).                    *)
(***************************************************************************)
Callbacks == {"get_pw", "get_user_pw"}

\* What the user may type at a prompt: "p", "q".
TerminalInputs == {<<112>>, <<113>>}

\* ui.prompt(..) / ui.prompt_password(..) followed by .ok()
PromptAnswers == {None} \cup {Some(t) : t \in TerminalInputs}

\* Mutant of UsernamePrompt: the username is asked for with the masked
\* passphrase prompt.
UsernamePromptMasked(url) ==
    [kind |-> "prompt_password", label |-> <<"Passphrase for ", url, ": ">>]

\* terminal_get_username: ui.prompt(&format!("Username for {url}"))
UsernamePrompt(url) == [kind |-> "prompt", label |-> <<"Username for ", url>>]

\* terminal_get_pw: ui.prompt_password(&format!("Passphrase for {url}: "))
PasswordPrompt(url) ==
    [kind |-> "prompt_password", label |-> <<"Passphrase for ", url, ": ">>]

\* The children the passphrase callback may meet: none, one that cannot be
\* written to or read from, one that answers nothing, "D 4", "D %4".
CallbackHelpers ==
    {[spawn |-> FALSE, write |-> FALSE, read |-> FALSE, out |-> <<>>, exit |-> 0],
     [spawn |-> TRUE, write |-> FALSE, read |-> FALSE, out |-> <<>>, exit |-> 0],
     [spawn |-> TRUE, write |-> TRUE, read |-> FALSE, out |-> <<>>, exit |-> 0]}
    \cup {[spawn |-> TRUE, write |-> TRUE, read |-> TRUE, out |-> o, exit |-> 0] :
            o \in {<<>>, <<68, 32, 52>>, <<68, 32, Percent, 52>>}}

IdleCallback ==
    [pc |-> "idle", url |-> "u1", pin |-> None, prompts |-> <<>>, answers |-> <<>>,
     result |-> None]

CbIdle ==
    /\ ui_lock = "free"
    /\ ui_in_flight = {}
    /\ cb = [c \in Callbacks |-> IdleCallback]
    /\ calls = 0

\* The closure c as the transport enters it with a url.
Invoked(c, url, first) ==
    [cb EXCEPT ![c] = [IdleCallback EXCEPT !.pc = first, !.url = url]]

\* ui.lock().unwrap(): blocks until the Mutex is free, then holds the guard.
Lock(c, next) ==
    /\ ui_lock = "free"
    /\ ui_lock' = c
    /\ cb' = [cb EXCEPT ![c].pc = next]
    /\ UNCHANGED <<ui_in_flight, calls>>
    /\ UNCHANGED notCbVars

\* The Ui starts showing a prompt for closure c.
ShowPrompt(c, prompt, next) ==
    /\ ui_in_flight' = ui_in_flight \cup {c}
    /\ cb' = [cb EXCEPT ![c].prompts = Append(@, prompt), ![c].pc = next]
    /\ UNCHANGED <<ui_lock, calls>>
    /\ UNCHANGED notCbVars

\* get_pw: |url, _username| pinentry_get_pw(url).or_else(|| ...)
CallGetPw ==
    /\ cb["get_pw"].pc \in {"idle", "returned"}
    /\ calls < MaxCalls
    /\ calls' = calls + 1
    /\ \E url \in Urls : cb' = Invoked("get_pw", url, "pinentry")
    /\ UNCHANGED <<ui_lock, ui_in_flight>>
    /\ UNCHANGED notCbVars

\* Mutant of GetPwPinentry: no or_else, the helper's answer is returned as
\* it is.
GetPwPinentryNoFallback ==
    /\ cb["get_pw"].pc = "pinentry"
    /\ \E h \in CallbackHelpers :
         LET pin == pinentry_get_pw(cb["get_pw"].url, h).result
         IN  cb' = [cb EXCEPT !["get_pw"].pin = pin,
                              !["get_pw"].result = pin,
                              !["get_pw"].pc = "returned"]
    /\ UNCHANGED <<ui_lock, ui_in_flight, calls>>
    /\ UNCHANGED notCbVars

\* pinentry_get_pw(url): Some(secret) is the closure's result, None falls
\* through to the or_else closure.
GetPwPinentry ==
    /\ cb["get_pw"].pc = "pinentry"
    /\ \E h \in CallbackHelpers :
         LET pin == pinentry_get_pw(cb["get_pw"].url, h).result
         IN  cb' = [cb EXCEPT !["get_pw"].pin = pin,
                              !["get_pw"].result = pin,
                              !["get_pw"].pc = IF pin = None THEN "lock" ELSE "returned"]
    /\ UNCHANGED <<ui_lock, ui_in_flight, calls>>
    /\ UNCHANGED notCbVars

\* Mutant of GetPwLock: the Ui is used without taking the Mutex.
GetPwLockSkipped ==
    /\ cb["get_pw"].pc = "lock"
    /\ cb' = [cb EXCEPT !["get_pw"].pc = "prompt"]
    /\ UNCHANGED <<ui_lock, ui_in_flight, calls>>
    /\ UNCHANGED notCbVars

\* ui.lock().unwrap() in the or_else closure
GetPwLock ==
    /\ cb["get_pw"].pc = "lock"
    /\ Lock("get_pw", "prompt")

\* terminal_get_pw(*guard, url): the masked prompt is shown
GetPwPrompt ==
    /\ cb["get_pw"].pc = "prompt"
    /\ ShowPrompt("get_pw", PasswordPrompt(cb["get_pw"].url), "answer")

\* prompt_password returns; .ok() is the closure's result and the guard, a
\* temporary of the or_else closure, is dropped.
GetPwAnswer ==
    /\ cb["get_pw"].pc = "answer"
    /\ \E a \in PromptAnswers :
         cb' = [cb EXCEPT !["get_pw"].answers = Append(@, a),
                          !["get_pw"].result = a,
                          !["get_pw"].pc = "returned"]
    /\ ui_in_flight' = ui_in_flight \ {"get_pw"}
    /\ ui_lock' = "free"
    /\ UNCHANGED calls
    /\ UNCHANGED notCbVars

\* get_user_pw: |url| { let ui = &mut *ui.lock().unwrap(); ... }
CallGetUserPw ==
    /\ cb["get_user_pw"].pc \in {"idle", "returned"}
    /\ calls < MaxCalls
    /\ calls' = calls + 1
    /\ \E url \in Urls : cb' = Invoked("get_user_pw", url, "lock")
    /\ UNCHANGED <<ui_lock, ui_in_flight>>
    /\ UNCHANGED notCbVars

GetUserPwLock ==
    /\ cb["get_user_pw"].pc = "lock"
    /\ Lock("get_user_pw", "user_prompt")

\* terminal_get_username(ui, url): the plaintext prompt is shown
GetUserPwUserPrompt ==
    /\ cb["get_user_pw"].pc = "user_prompt"
    /\ ShowPrompt("get_user_pw", UsernamePrompt(cb["get_user_pw"].url), "user_answer")

\* terminal_get_username(ui, url)?: None returns None from the closure, and
\* the guard is dropped.
GetUserPwUserAnswer ==
    /\ cb["get_user_pw"].pc = "user_answer"
    /\ \E a \in PromptAnswers :
         /\ cb' = [cb EXCEPT !["get_user_pw"].answers = Append(@, a),
                             !["get_user_pw"].pc =
                                 IF a = None THEN "returned" ELSE "pw_prompt"]
         /\ ui_lock' = IF a = None THEN "free" ELSE ui_lock
    /\ ui_in_flight' = ui_in_flight \ {"get_user_pw"}
    /\ UNCHANGED calls
    /\ UNCHANGED notCbVars

\* terminal_get_pw(ui, url): the masked prompt is shown
GetUserPwPwPrompt ==
    /\ cb["get_user_pw"].pc = "pw_prompt"
    /\ ShowPrompt("get_user_pw", PasswordPrompt(cb["get_user_pw"].url), "pw_answer")

\* terminal_get_pw(ui, url)?, then Some((username, password)); the guard is
\* dropped either way.
GetUserPwPwAnswer ==
    /\ cb["get_user_pw"].pc = "pw_answer"
    /\ \E a \in PromptAnswers :
         cb' = [cb EXCEPT !["get_user_pw"].answers = Append(@, a),
                          !["get_user_pw"].result =
                              IF a = None THEN None
                              ELSE Some(<<cb["get_user_pw"].answers[1][1], a[1]>>),
                          !["get_user_pw"].pc = "returned"]
    /\ ui_in_flight' = ui_in_flight \ {"get_user_pw"}
    /\ ui_lock' = "free"
    /\ UNCHANGED calls
    /\ UNCHANGED notCbVars


(***************************************************************************)
(* print_failed_git_export.  An error is its Display text and its          *)
(* source(); a FailedRefExportReason is an error with a variant.  Every    *)
(* write may fail, and `?` then returns the error at once.                 *)
(***************************************************************************)
BranchNames == {"foo", "foo/bar"}

\* The chains of causes below a reason, outermost first.
SourceChains == {<<>>, <<"B">>, <<"B", "C">>, <<"C", "B">>}

RECURSIVE MkSource(_)
\* The Option<&dyn Error> whose chain of Display texts is msgs.
MkSource(msgs) ==
    IF msgs = <<>> THEN None
    ELSE Some([display |-> msgs[1], source |-> MkSource(Tail(msgs))])

\* FailedRefExportReason: the variants with a #[source] and one without.
Reasons ==
    {[variant |-> v, display |-> "A", source |-> MkSource(c)] :
        v \in {"FailedToSet", "FailedToDelete"}, c \in SourceChains}
    \cup {[variant |-> "InvalidGitName", display |-> "A", source |-> None]}

FailedRefExports == {[name |-> n, reason |-> r] : n \in BranchNames, r \in Reasons}

\* The hint paragraph (its backquotes are written ': a string of this
\* language holds none).
HintText ==
    "Hint: Git doesn't allow a branch name that looks like a parent directory of\n"
    \o "another (e.g. 'foo' and 'foo/bar'). Try to rename the branches that failed to\n"
    \o "export or their \"parent\" branches.\n"

\* The writer: what was written, how many more writes succeed, and whether
\* a write has failed (after which `?` has returned and nothing is written).
NewWriter(budget) == [out |-> <<>>, budget |-> budget, ok |-> TRUE]

Write(w, to, txt) ==
    IF ~w.ok THEN w
    ELSE IF w.budget = Some(0) THEN [w EXCEPT !.ok = FALSE]
    ELSE [w EXCEPT !.out = Append(@, [to |-> to, text |-> txt]),
                   !.budget = IF @ = None THEN None ELSE Some(@[1] - 1)]

\* write!(formatter, ": {err}"): the literal piece and the Display text of
\* err reach the output as two writes, and the first can be the one to fail.
WriteCause(w, err) == Write(Write(w, "stderr", ": "), "stderr", err.display)

\* Mutant of WriteCauses: the reason is written, its sources are not.
WriteCausesTopOnly(w, err) ==
    IF err = None THEN w ELSE WriteCause(w, err[1])

RECURSIVE WriteCauses(_, _)
\* for err in iter::successors(Some(reason), |err| err.source())
\*     { write!(formatter, ": {err}")?; }
WriteCauses(w, err) ==
    IF err = None THEN w
    ELSE WriteCauses(WriteCause(w, err[1]), err[1].source)

\* The body of the for loop, for one FailedRefExport { name, reason }.
WriteEntry(w, failed) ==
    LET w1 == Write(w, "stderr", "  ")
        w2 == Write(w1, "branch", failed.name)
        w3 == WriteCauses(w2, Some([display |-> failed.reason.display,
                                   source |-> failed.reason.source]))
    IN  Write(w3, "stderr", "\n")

RECURSIVE WriteEntries(_, _)
WriteEntries(w, list) ==
    IF list = <<>> THEN w
    ELSE WriteEntries(WriteEntry(w, list[1]), Tail(list))

\* Mutant of AnyFailedToSet: only the first failure is looked at.
AnyFailedToSetFirstOnly(list) ==
    list # <<>> /\ list[1].reason.variant = "FailedToSet"

\* failed_branches.iter().any(|failed| matches!(failed.reason, FailedToSet(_)))
AnyFailedToSet(list) == \E k \in 1..Len(list) : list[k].reason.variant = "FailedToSet"

\* print_failed_git_export(ui, failed_branches) on an output that accepts
\* `budget` writes: [out, ok].
print_failed_git_export(list, budget) ==
    IF list = <<>> THEN NewWriter(budget)
    ELSE LET w1 == Write(NewWriter(budget), "warning", "Failed to export some branches:\n")
             w2 == WriteEntries(w1, list)
         IN  IF AnyFailedToSet(list) THEN Write(w2, "hint", HintText) ELSE w2

RECURSIVE Decimal(_)
\* Display for usize: the decimal digits of n.
Decimal(n) ==
    LET digit == <<"0", "1", "2", "3", "4", "5", "6", "7", "8", "9">>[(n % 10) + 1]
    IN  IF n < 10 THEN digit ELSE Decimal(n \div 10) \o digit

\* print_git_import_stats(ui, stats) for stats.abandoned_commits of length n,
\* on an output that accepts `budget` writes: [out, ok].  The writeln! has
\* three pieces, each a write of its own.
print_git_import_stats(n, budget) ==
    IF n = 0 THEN NewWriter(budget)
    ELSE LET w1 == Write(NewWriter(budget), "stderr", "Abandoned ")
             w2 == Write(w1, "stderr", Decimal(n))
         IN  Write(w2, "stderr", " commits that are no longer reachable.\n")

ExportIdle ==
    /\ failed_branches = <<>>
    /\ abandoned_commits = 0
    /\ write_budget = None
    /\ ui_out = <<>>
    /\ export_result = "Ok"
    /\ epc = "idle"


(***************************************************************************)
(* Paths.  A path is a sequence of characters, "/" the separator.          *)
(***************************************************************************)
\* Path::is_absolute (Unix): the path starts with the separator.
IsAbsolute(p) == p # <<>> /\ p[1] = "/"

\* PathBuf::join / push (Unix): an absolute argument replaces the path;
\* otherwise a separator is added unless the path is empty or already ends
\* with one, and the argument is appended.
PathJoin(base, rel) ==
    IF IsAbsolute(rel) THEN rel
    ELSE IF base # <<>> /\ base[Len(base)] # "/" THEN base \o <<"/">> \o rel
    ELSE base \o rel

\* str::strip_prefix("~/")
StripTildeSlash(p) ==
    IF Len(p) >= 2 /\ p[1] = "~" /\ p[2] = "/" THEN Some(SubSeq(p, 3, Len(p))) ELSE None

\* std::env::var("HOME"): Ok(value), or Err for a variable that is not set
\* or whose value is not Unicode.
EnvVarOk(env) == IF env.state = "set" THEN Some(env.value) ELSE None

expand_git_path(p, env) ==
    LET remainder == StripTildeSlash(p)
        home_dir_str == EnvVarOk(env)
    IN  IF remainder # None /\ home_dir_str # None
        THEN PathJoin(home_dir_str[1], remainder[1])
        ELSE p

PathChars == {"~", "/", "a"}

\* HOME: not set, set to bytes that are not Unicode, or set to "/h" or
\* "/h/".
HomeEnvs ==
    {[state |-> "unset", value |-> <<>>], [state |-> "not_unicode", value |-> <<>>]}
    \cup {[state |-> "set", value |-> v] :
            v \in {<<"/", "h">>, <<"/", "h", "/">>}}

PathIdle ==
    /\ path_str = <<>>
    /\ home_env = [state |-> "unset", value |-> <<>>]
    /\ expanded = <<>>
    /\ xpc = "idle"

(***************************************************************************)
(* get_ssh_keys.  The file system is what each of the three candidate      *)
(* paths is: nothing, a regular file, a directory, a symbolic link to one  *)
(* of these or to nothing, or something whose metadata cannot be read.     *)
(***************************************************************************)
KeyFilenames == <<"id_ed25519_sk", "id_ed25519", "id_rsa">>

FileKinds == {"absent", "file", "dir", "link_to_file", "link_to_dir", "dangling_link",
              "unreadable"}

\* Mutant of IsFile: Path::exists, whatever the path leads to.
IsFileExists(kind) == kind \in {"file", "dir", "link_to_file", "link_to_dir"}

\* Path::is_file: fs::metadata(path), which follows symbolic links, says a
\* regular file; any error is false.
IsFile(kind) == kind \in {"file", "link_to_file"}

RECURSIVE CollectKeys(_, _, _)
\* for filename in [...] { let key_path = ssh_dir.join(filename);
\*   if key_path.is_file() { paths.push(key_path); } }
CollectKeys(ssh_dir, filenames, files) ==
    IF filenames = <<>> THEN <<>>
    ELSE LET key_path == PathJoin(ssh_dir, <<filenames[1]>>)
             rest == CollectKeys(ssh_dir, Tail(filenames), files)
         IN  IF IsFile(files[filenames[1]]) THEN <<key_path>> \o rest ELSE rest

get_ssh_keys(user, home, files) ==
    IF home = None THEN <<>>
    ELSE CollectKeys(PathJoin(home[1], <<".ssh">>), KeyFilenames, files)

HomeDirs == {None, Some(<<"/", "home", "/", "u">>)}

KeysIdle ==
    /\ home_dir = None
    /\ ssh_files = [f \in {KeyFilenames[k] : k \in 1..Len(KeyFilenames)} |-> "absent"]
    /\ username = ""
    /\ ssh_keys = <<>>
    /\ kpc = "idle"

(***************************************************************************)
(* The decoder on arbitrary arguments.  The argument is a &str, so it is   *)
(* valid UTF-8.                                                            *)
(***************************************************************************)
\* '%', '+', '4', 'A', 'G', and the two bytes of U+02AA.
DecodeAlphabet == {Percent, Plus, 52, 65, 71, 202, 170}

DecodeInputs == {bs \in SeqsUpTo(DecodeAlphabet, MaxEncLen) : IsUtf8(bs)}

DecodeIdle ==
    /\ encoded = <<>>
    /\ text = <<>>
    /\ decode_result = None
    /\ dpc = "idle"

InitDecode ==
    /\ encoded \in DecodeInputs
    /\ text = <<>>
    /\ decode_result = None
    /\ dpc = "ready"
    /\ PinIdle /\ CbIdle /\ ExportIdle /\ PathIdle /\ KeysIdle

Decode ==
    /\ dpc = "ready"
    /\ decode_result' = decode_assuan_data(encoded)
    /\ dpc' = "done"
    /\ UNCHANGED <<encoded, text>>
    /\ UNCHANGED <<pinVars, cbVars, exportVars, pathVars, keyVars>>

NextDecode == Decode

SpecDecode == InitDecode /\ [][NextDecode]_vars

\* 0-9, a-f, A-F
IsHexDigit(b) == b \in (48..57) \cup (97..102) \cup (65..70)

\* The byte at k is followed by two bytes, both hexadecimal digits.
TwoHexDigitsFollow(bs, k) ==
    k + 2 <= Len(bs) /\ IsHexDigit(bs[k + 1]) /\ IsHexDigit(bs[k + 2])

\* C3 (as claimed): whenever some '%' of the argument is not followed by
\* exactly two hexadecimal digits (it is followed by fewer than two bytes, or
\* by two bytes one of which is not in 0-9, a-f, A-F), decode_assuan_data
\* returns None.
C3_MalformedEscapeFails ==
    (dpc = "done" /\ \E k \in 1..Len(encoded) :
                        encoded[k] = Percent /\ ~TwoHexDigitsFollow(encoded, k))
        => decode_result = None

\* The byte at k is followed by two hexadecimal digits, or by '+' and one.
SignedOrHexFollow(bs, k) ==
    \/ TwoHexDigitsFollow(bs, k)
    \/ k + 2 <= Len(bs) /\ bs[k + 1] = Plus /\ IsHexDigit(bs[k + 2])

\* What the code does guarantee: the decode fails unless every '%' is
\* followed by two hexadecimal digits or by '+' and one hexadecimal digit.
DecodeFailsOutsideSignedOrHex ==
    (dpc = "done" /\ \E k \in 1..Len(encoded) :
                        encoded[k] = Percent /\ ~SignedOrHexFollow(encoded, k))
        => decode_result = None

(***************************************************************************)
(* The round trip: the helper percent-escapes a text as the Assuan         *)
(* protocol describes (a byte is sent as it is unless it is '%', or as '%' *)
(* and its two hexadecimal digits in either case), and the decoder is      *)
(* applied to what the helper sent.  The decoder takes a &str: what the    *)
(* helper sent reaches it only if it is UTF-8.                             *)
(***************************************************************************)
\* '%', '+', 'A', line feed, and the two bytes of U+02AA.
TextAlphabet == {Percent, Plus, 65, Newline, 202, 170}

Texts == {bs \in SeqsUpTo(TextAlphabet, MaxTextLen) : IsUtf8(bs)}

\* The characters that write the hexadecimal digit v (0..15).
HexChars(v) == IF v < 10 THEN {48 + v} ELSE {55 + v, 87 + v}

ByteEncodings(b) ==
    (IF b # Percent THEN {<<b>>} ELSE {})
        \cup {<<Percent, hi, lo>> : hi \in HexChars(b \div 16), lo \in HexChars(b % 16)}

RECURSIVE Encodings(_)
Encodings(s) ==
    IF s = <<>> THEN {<<>>}
    ELSE {h \o t : h \in ByteEncodings(s[1]), t \in Encodings(Tail(s))}

InitRoundTrip ==
    /\ text \in Texts
    /\ encoded = <<>>
    /\ decode_result = None
    /\ dpc = "encode"
    /\ PinIdle /\ CbIdle /\ ExportIdle /\ PathIdle /\ KeysIdle

HelperEncode ==
    /\ dpc = "encode"
    /\ encoded' \in {e \in Encodings(text) : IsUtf8(e)}
    /\ dpc' = "ready"
    /\ UNCHANGED <<text, decode_result>>
    /\ UNCHANGED <<pinVars, cbVars, exportVars, pathVars, keyVars>>

NextRoundTrip == HelperEncode \/ Decode

SpecRoundTrip == InitRoundTrip /\ [][NextRoundTrip]_vars

\* C9: decoding a percent-escaped encoding of a text s (each byte literal
\* if it is not '%', or '%' and its two hexadecimal digits) returns exactly
\* s; the empty input decodes to the empty string, not to a failure.
C9_DecodeEncodeRoundTrip ==
    dpc = "done" => /\ decode_result = Some(text)
                    /\ (encoded = <<>> => decode_result = Some(<<>>))

\* A text with a multi-byte character and an escaped byte was decoded.
C9_Witness ==
    /\ dpc = "done"
    /\ Len(encoded) > Len(text)
    /\ \E k \in 1..Len(text) : text[k] > 127
    /\ decode_result = Some(text)

(***************************************************************************)
(* pinentry_get_pw against every behaviour of the child.                   *)
(***************************************************************************)
InitPinentry ==
    /\ helper \in HelperBehaviours
    /\ pin_url \in Urls
    /\ pin_request = None
    /\ pin_result = None
    /\ pin_panicked = FALSE
    /\ ppc = "ready"
    /\ DecodeIdle /\ CbIdle /\ ExportIdle /\ PathIdle /\ KeysIdle

PinentryGetPw ==
    /\ ppc = "ready"
    /\ LET r == pinentry_get_pw(pin_url, helper)
       IN  /\ pin_result' = r.result
           /\ pin_request' = r.request
           /\ pin_panicked' = r.panicked
    /\ ppc' = "done"
    /\ UNCHANGED <<helper, pin_url>>
    /\ UNCHANGED <<decodeVars, cbVars, exportVars, pathVars, keyVars>>

NextPinentry == PinentryGetPw

SpecPinentry == InitPinentry /\ [][NextPinentry]_vars

\* The positions where a line of the output starts: the first byte and the
\* byte after each line feed.
LineStarts(out) == {p \in 1..(Len(out) + 1) : p = 1 \/ out[p - 1] = Newline}

BeginsWithMarker(out, p) == p + 1 <= Len(out) /\ out[p] = 68 /\ out[p + 1] = 32

MarkerLines(out) == {p \in LineStarts(out) : BeginsWithMarker(out, p)}

FirstMarkerLine(out) == CHOOSE p \in MarkerLines(out) : \A q \in MarkerLines(out) : p <= q

\* The position after the last byte of the line that starts at p.
LineEnd(out, p) ==
    CHOOSE q \in p..(Len(out) + 1) :
        /\ q = Len(out) + 1 \/ out[q] = Newline
        /\ \A m \in p..(q - 1) : out[m] # Newline

PayloadAt(out, p) == SubSeq(out, p + 2, LineEnd(out, p) - 1)

\* C4: pinentry_get_pw is None when the helper cannot be spawned, when
\* writing the request or reading the output fails, or when no output line
\* begins with "D "; otherwise it is the decode of the payload of the first
\* line that begins with "D ", whatever later lines hold and whatever the
\* exit status is; it never ends in a fatal error.
C4_PinentryResult ==
    ppc = "done" =>
        /\ ~pin_panicked
        /\ pin_result =
             IF \/ ~helper.spawn \/ ~helper.write
                \/ ~helper.read \/ ~IsUtf8(helper.out)
                \/ MarkerLines(helper.out) = {}
             THEN None
             ELSE decode_assuan_data(PayloadAt(helper.out, FirstMarkerLine(helper.out)))

\* A child that exits with a failure status and writes two "D " lines
\* yields the secret of the first.
C4_Witness ==
    /\ ppc = "done"
    /\ helper.exit = 1
    /\ Cardinality(MarkerLines(helper.out)) = 2
    /\ PayloadAt(helper.out, FirstMarkerLine(helper.out)) = <<52>>
    /\ pin_result = Some(<<52>>)

(***************************************************************************)
(* One network operation: the transport invokes the two closures, in any   *)
(* order and interleaving.                                                 *)
(***************************************************************************)
InitCallbacks == CbIdle /\ DecodeIdle /\ PinIdle /\ ExportIdle /\ PathIdle /\ KeysIdle

NextCallbacks ==
    \/ CallGetPw
    \/ GetPwPinentry
    \/ GetPwLock
    \/ GetPwPrompt
    \/ GetPwAnswer
    \/ CallGetUserPw
    \/ GetUserPwLock
    \/ GetUserPwUserPrompt
    \/ GetUserPwUserAnswer
    \/ GetUserPwPwPrompt
    \/ GetUserPwPwAnswer

SpecCallbacks == InitCallbacks /\ [][NextCallbacks]_vars

\* C1: in an invocation of the passphrase callback with url u, if
\* pinentry_get_pw yields nothing then terminal_get_pw is invoked exactly
\* once, with a label containing u, and its result is the callback's result;
\* if both yield nothing the callback's result is None.
C1_PassphraseFallback ==
    LET r == cb["get_pw"]
    IN  (r.pc = "returned" /\ r.pin = None) =>
            /\ Len(r.prompts) = 1
            /\ r.prompts[1].kind = "prompt_password"
            /\ \E k \in 1..Len(r.prompts[1].label) : r.prompts[1].label[k] = r.url
            /\ Len(r.answers) = 1
            /\ r.result = r.answers[1]
            /\ (r.answers[1] = None => r.result = None)

\* The helper gave nothing and the terminal gave the passphrase.
C1_Witness ==
    LET r == cb["get_pw"]
    IN  /\ r.pc = "returned"
        /\ r.pin = None
        /\ Len(r.prompts) = 1
        /\ r.result = Some(<<113>>)

\* C2: every prompt the Ui shows belongs to the callback that holds the
\* Mutex guard, so at most one prompt is in flight at a time.
C2_PromptsUnderLock ==
    /\ \A c \in ui_in_flight : ui_lock = c
    /\ Cardinality(ui_in_flight) <= 1

\* One closure is showing a prompt while the other waits for the Mutex.
C2_Witness ==
    /\ ui_in_flight = {"get_user_pw"}
    /\ cb["get_pw"].pc = "lock"

\* C5: in an invocation of the username+password callback with url u the
\* plaintext prompt "Username for {u}" comes before the masked prompt
\* "Passphrase for {u}: "; the callback yields a pair only if both prompts
\* succeed and yields nothing if either fails.
C5_UsernameThenPassword ==
    LET r == cb["get_user_pw"]
    IN  r.pc = "returned" =>
            /\ Len(r.prompts) \in {1, 2}
            /\ Len(r.answers) = Len(r.prompts)
            /\ r.prompts[1] = [kind |-> "prompt", label |-> <<"Username for ", r.url>>]
            /\ Len(r.prompts) = 2 =>
                 r.prompts[2] = [kind |-> "prompt_password",
                                 label |-> <<"Passphrase for ", r.url, ": ">>]
            /\ r.result # None =>
                 /\ Len(r.answers) = 2
                 /\ r.answers[1] # None /\ r.answers[2] # None
                 /\ r.result = Some(<<r.answers[1][1], r.answers[2][1]>>)
            /\ (\E k \in 1..Len(r.answers) : r.answers[k] = None) => r.result = None

\* Both prompts were answered and the pair was returned.
C5_Witness ==
    LET r == cb["get_user_pw"]
    IN  /\ r.pc = "returned"
        /\ r.url = "u2"
        /\ r.result = Some(<<<<112>>, <<113>>>>)

(***************************************************************************)
(* print_failed_git_export on every list of failures, with the output      *)
(* failing at any write or at none.                                        *)
(***************************************************************************)
\* The output accepts every write, or fails at one of the writes of w.
Budgets(w) == {None} \cup {Some(k) : k \in 0..(Len(w.out) - 1)}

InitExport ==
    /\ failed_branches = <<>>
    /\ abandoned_commits = 0
    /\ write_budget = None
    /\ ui_out = <<>>
    /\ export_result = "Ok"
    /\ epc = "ready"
    /\ DecodeIdle /\ PinIdle /\ CbIdle /\ PathIdle /\ KeysIdle

PrintFailedGitExport ==
    /\ epc = "ready"
    /\ \E list \in SeqsUpTo(FailedRefExports, MaxFailed) :
        \E budget \in Budgets(print_failed_git_export(list, None)) :
            LET w == print_failed_git_export(list, budget)
            IN  /\ failed_branches' = list
                /\ write_budget' = budget
                /\ ui_out' = w.out
                /\ export_result' = IF w.ok THEN "Ok" ELSE "Err"
    /\ epc' = "done"
    /\ UNCHANGED abandoned_commits
    /\ UNCHANGED <<decodeVars, pinVars, cbVars, pathVars, keyVars>>

PrintGitImportStats ==
    /\ epc = "ready"
    /\ \E n \in 0..MaxAbandoned :
        \E budget \in Budgets(print_git_import_stats(n, None)) :
            LET w == print_git_import_stats(n, budget)
            IN  /\ abandoned_commits' = n
                /\ write_budget' = budget
                /\ ui_out' = w.out
                /\ export_result' = IF w.ok THEN "Ok" ELSE "Err"
    /\ epc' = "stats_done"
    /\ UNCHANGED failed_branches
    /\ UNCHANGED <<decodeVars, pinVars, cbVars, pathVars, keyVars>>

NextExport == PrintFailedGitExport \/ PrintGitImportStats

SpecExport == InitExport /\ [][NextExport]_vars

HintWrites == {k \in 1..Len(ui_out) : ui_out[k] = [to |-> "hint", text |-> HintText]}

LineEnds == {k \in 1..Len(ui_out) : ui_out[k] = [to |-> "stderr", text |-> "\n"]}

\* At least one entry of the list has the reason FailedToSet.
HasFailedToSetEntry ==
    {k \in 1..Len(failed_branches) : failed_branches[k].reason.variant = "FailedToSet"} # {}

\* C6: the hint paragraph is emitted if and only if some entry's reason is
\* FailedToSet; when emitted it is emitted once, after the lines of all
\* entries; for an empty list nothing is emitted.  (A write that fails ends
\* the function with that error: the "if" direction is of the calls that
\* return Ok, the rest holds of every call.)
C6_HintIffFailedToSet ==
    epc = "done" =>
        /\ HintWrites # {} => HasFailedToSetEntry
        /\ (export_result = "Ok" /\ HasFailedToSetEntry) => HintWrites # {}
        /\ Cardinality(HintWrites) <= 1
        /\ HintWrites # {} =>
             /\ HintWrites = {Len(ui_out)}
             /\ Cardinality(LineEnds) = Len(failed_branches)
        /\ failed_branches = <<>> => (ui_out = <<>> /\ export_result = "Ok")

\* Two failures, the second of them FailedToSet: the hint is the last write.
C6_Witness ==
    /\ epc = "done"
    /\ Len(failed_branches) = 2
    /\ failed_branches[1].reason.variant = "FailedToDelete"
    /\ failed_branches[2].reason.variant = "FailedToSet"
    /\ HintWrites = {Len(ui_out)}
    /\ export_result = "Ok"

RECURSIVE ConcatText(_)
\* The text of a sequence of writes, as the terminal receives it.
ConcatText(ws) == IF ws = <<>> THEN "" ELSE ws[1].text \o ConcatText(Tail(ws))

RECURSIVE CauseChain(_)
\* The Display texts from an error to its root cause.
CauseChain(err) ==
    IF err.source = None THEN <<err.display>>
    ELSE <<err.display>> \o CauseChain(err.source[1])

RECURSIVE JoinColon(_)
JoinColon(msgs) == IF msgs = <<>> THEN "" ELSE ": " \o msgs[1] \o JoinColon(Tail(msgs))

\* "n: A: B: C" for an entry named n with the chain A -> B -> C, indented
\* by two spaces and ended by a line feed as the function writes it.
ExpectedLine(e) == "  " \o e.name \o JoinColon(CauseChain(e.reason)) \o "\n"

RECURSIVE ExpectedLines(_)
ExpectedLines(list) ==
    IF list = <<>> THEN "" ELSE ExpectedLine(list[1]) \o ExpectedLines(Tail(list))

\* The writes after the header and before the hint.
EntryWrites ==
    SubSeq(ui_out, 2, IF HintWrites = {} THEN Len(ui_out) ELSE Len(ui_out) - 1)

\* C7: for a non-empty list the function emits one header and then one line
\* per entry, in the order supplied, the line of an entry named n with the
\* chain A -> B -> C reading "n: A: B: C".  (Of the calls that return Ok: a
\* write that fails ends the function with that error.)
C7_HeaderThenOneLinePerEntry ==
    (epc = "done" /\ failed_branches # <<>> /\ export_result = "Ok") =>
        /\ ui_out[1] = [to |-> "warning", text |-> "Failed to export some branches:\n"]
        /\ \A k \in 2..Len(ui_out) : ui_out[k].to # "warning"
        /\ Cardinality(LineEnds) = Len(failed_branches)
        /\ ConcatText(EntryWrites) = ExpectedLines(failed_branches)

\* Two entries, the first with a chain of three: "  foo/bar: A: B: C".
C7_Witness ==
    /\ epc = "done"
    /\ export_result = "Ok"
    /\ Len(failed_branches) = 2
    /\ failed_branches[1].name = "foo/bar"
    /\ failed_branches[2].name = "foo"
    /\ ConcatText(SubSeq(ui_out, 2, 10)) = "  foo/bar: A: B: C\n"

(***************************************************************************)
(* expand_git_path on every path and every state of HOME.                  *)
(***************************************************************************)
InitPath ==
    /\ path_str \in SeqsUpTo(PathChars, MaxPathLen)
    /\ home_env \in HomeEnvs
    /\ expanded = <<>>
    /\ xpc = "ready"
    /\ DecodeIdle /\ PinIdle /\ CbIdle /\ ExportIdle /\ KeysIdle

ExpandGitPath ==
    /\ xpc = "ready"
    /\ expanded' = expand_git_path(path_str, home_env)
    /\ xpc' = "done"
    /\ UNCHANGED <<path_str, home_env>>
    /\ UNCHANGED <<decodeVars, pinVars, cbVars, exportVars, keyVars>>

NextPath == ExpandGitPath

SpecPath == InitPath /\ [][NextPath]_vars

RECURSIVE Components(_, _)
\* The names between the separators of a path, empty ones dropped (what
\* Path::components yields, and what == on paths compares, beside the root).
Components(p, cur) ==
    IF p = <<>> THEN (IF cur = <<>> THEN <<>> ELSE <<cur>>)
    ELSE IF p[1] = "/"
         THEN (IF cur = <<>> THEN <<>> ELSE <<cur>>) \o Components(Tail(p), <<>>)
    ELSE Components(Tail(p), Append(cur, p[1]))

\* Two paths are the same path: both rooted or both not, the same names.
SamePath(p, q) ==
    /\ IsAbsolute(p) <=> IsAbsolute(q)
    /\ Components(p, <<>>) = Components(q, <<>>)

StartsWithTildeSlash(p) == Len(p) >= 2 /\ p[1] = "~" /\ p[2] = "/"

\* C8 (as claimed): if p starts with "~/" and HOME is set, the result is p
\* with the leading "~" replaced by the value of HOME; if p does not start
\* with "~/" or HOME is unset, the result is p unchanged.
C8_TildeReplacedByHome ==
    xpc = "done" =>
        /\ (StartsWithTildeSlash(path_str) /\ home_env.state = "set") =>
               SamePath(expanded, home_env.value \o Tail(path_str))
        /\ (~StartsWithTildeSlash(path_str) \/ home_env.state = "unset") =>
               expanded = path_str

\* What the code does guarantee: the replacement when the text after "~/"
\* does not itself start with "/" and HOME is not empty, and the path
\* unchanged when it does not start with "~/" or HOME cannot be read.
ExpandGitPathRelativeRemainder ==
    xpc = "done" =>
        /\ (/\ StartsWithTildeSlash(path_str)
            /\ home_env.state = "set" /\ home_env.value # <<>>
            /\ ~(Len(path_str) >= 3 /\ path_str[3] = "/")) =>
               SamePath(expanded, home_env.value \o Tail(path_str))
        /\ (~StartsWithTildeSlash(path_str) \/ home_env.state # "set") =>
               expanded = path_str

(***************************************************************************)
(* get_ssh_keys on every state of the three candidate files.               *)
(***************************************************************************)
InitKeys ==
    /\ home_dir \in HomeDirs
    /\ ssh_files \in [{KeyFilenames[k] : k \in 1..Len(KeyFilenames)} -> FileKinds]
    /\ username \in {"", "git"}
    /\ ssh_keys = <<>>
    /\ kpc = "ready"
    /\ DecodeIdle /\ PinIdle /\ CbIdle /\ ExportIdle /\ PathIdle

GetSshKeys ==
    /\ kpc = "ready"
    /\ ssh_keys' = get_ssh_keys(username, home_dir, ssh_files)
    /\ kpc' = "done"
    /\ UNCHANGED <<home_dir, ssh_files, username>>
    /\ UNCHANGED <<decodeVars, pinVars, cbVars, exportVars, pathVars>>

NextKeys == GetSshKeys

SpecKeys == InitKeys /\ [][NextKeys]_vars

\* ~/.ssh/<name>, ~ being the home directory.
HomeSshPath(name) == home_dir[1] \o <<"/", ".ssh", "/", name>>

\* The fixed order of the claim.
ClaimedOrder == <<"id_ed25519_sk", "id_ed25519", "id_rsa">>

\* The candidate is on disk as a regular file (reached through a symbolic
\* link or not).
ExistsAsRegularFile(name) == ssh_files[name] \in {"file", "link_to_file"}

\* C10: get_ssh_keys returns a subsequence of [~/.ssh/id_ed25519_sk,
\* ~/.ssh/id_ed25519, ~/.ssh/id_rsa], in that order, holding exactly the
\* paths that exist as regular files; with no home directory it returns
\* the empty list.
C10_SshKeysInFixedOrder ==
    kpc = "done" =>
        IF home_dir = None THEN ssh_keys = <<>>
        ELSE /\ \A k \in 1..3 :
                   ExistsAsRegularFile(ClaimedOrder[k]) <=>
                       \E i \in 1..Len(ssh_keys) : ssh_keys[i] = HomeSshPath(ClaimedOrder[k])
             /\ \A i \in 1..Len(ssh_keys) :
                   \E k \in 1..3 : ssh_keys[i] = HomeSshPath(ClaimedOrder[k])
             /\ \A i, j \in 1..Len(ssh_keys) :
                   i < j => \E k, m \in 1..3 :
                                /\ k < m
                                /\ ssh_keys[i] = HomeSshPath(ClaimedOrder[k])
                                /\ ssh_keys[j] = HomeSshPath(ClaimedOrder[m])

\* id_ed25519 is a directory; the other two are files and are returned in
\* order.
C10_Witness ==
    /\ kpc = "done"
    /\ home_dir # None
    /\ ssh_files["id_ed25519"] = "dir"
    /\ ssh_files["id_rsa"] = "link_to_file"
    /\ ssh_keys = <<HomeSshPath("id_ed25519_sk"), HomeSshPath("id_rsa")>>

====
